---- MODULE Spec2Model ----
(***************************************************************************)
(* Model of the TUI tester's session lifecycle engine                      *)
(* (session_manager.py): TUISession and SessionManager, together with the  *)
(* part of the operating system they talk to (descriptor table, child      *)
(* processes, signals).                                                    *)
(*                                                                         *)
(* The program runs on one asyncio event loop.  A coroutine is atomic up   *)
(* to its next await of a real suspension (asyncio.sleep); the blocking    *)
(* TUISession.close (time.sleep) keeps the loop, so no other coroutine     *)
(* runs while it is in progress, but child processes and the host do.      *)
(*                                                                         *)
(* A child process is "running", "foreign" (running under another user id, *)
(* so that signals from the parent are refused with EPERM), "zombie"       *)
(* (exited, not waited for: os.kill still succeeds) or "reaped" (gone from *)
(* the process table: os.kill fails with ESRCH).  session_manager.py never *)
(* waits for a child; only the host process can reap one.                  *)
(***************************************************************************)
EXTENDS Integers, Sequences, FiniteSets, TLC

\* ---------------------------------------------------------------- bounds
MaxObjs == 2        \* TUISession objects constructed in one behaviour
NumIds == 2         \* distinct values str(uuid.uuid4())[:8] can take
MaxReads == 2       \* the max_reads argument of _read_output
NumChunks == 2      \* distinct chunk contents a read can return
MaxCaptures == 2    \* capture() calls counted per session
MaxKeyLen == 7      \* characters of a string handed to parse_keys

\* ------------------------------------------------------ program constants
ClosePolls == 10    \* for _ in range(10) in TUISession.close

Objs == 1..MaxObjs
Ids == 1..NumIds
Fds == 1..MaxObjs
Chunks == 1..NumChunks

VARIABLES
    sessions,   \* SessionManager._sessions: [Ids -> 0..MaxObjs], 0 = no entry
    nobj,       \* number of TUISession objects constructed so far
    sid,        \* TUISession.id of each object (0 = not constructed)
    sfd,        \* TUISession.fd of each object (0 = not constructed)
    fdTable,    \* OS descriptor table: the pty (named by the object it was
                \* opened for) open at each descriptor number, 0 = closed
    proc,       \* OS: state of the child process of each object (pid = object)
    signaled,   \* objects whose process was delivered SIGTERM or SIGKILL
    pending,    \* coroutines suspended in asyncio.sleep, per object
    closing,    \* the TUISession.close() in progress (blocking)
    sweep,      \* the cleanup_dead() in progress (blocking)
    closed,     \* objects whose close() has been entered at least once
    popped,     \* objects a SessionManager.close call has popped (and closed)
    repop,      \* TRUE once some object was popped (and closed) a second time
    ret,        \* what the last step returned to the caller of an operation
                \* (NoRet when the step returned nothing)
    capcount,   \* TUISession.capture_count of each object
    capret,     \* per object: capture() calls that returned a result
    listed,     \* the list a caller got from list_sessions() and still holds
    keys,       \* the strings handed to parse_keys
    session_manager   \* the module's _session_manager: "None" or "made"

vars == <<sessions, nobj, sid, sfd, fdTable, proc, signaled, pending,
          closing, sweep, closed, popped, repop, ret, capcount, capret,
          listed, keys, session_manager>>

\* What the registry, close() and the child processes never touch.
callerVars == <<capcount, capret, listed, keys, session_manager>>

osVars == <<fdTable, proc, signaled>>

NoClose == [obj |-> 0, pc |-> "none", log |-> <<>>, via |-> "none", id |-> 0,
            first |-> FALSE]
NoSweep == [active |-> FALSE, todo |-> {}, n |-> 0, regAt |-> {}, exitedAt |-> {},
            openAt |-> {}, sigAt |-> {}]
NoRet == [op |-> "none"]
NoList == [held |-> FALSE, live |-> FALSE, items |-> {}]

\* ------------------------------------------------------------------- OS

\* Outcome of os.kill(pid, sig) for the process of object o.
KillOutcome(o) ==
    CASE proc[o] \in {"running", "zombie"} -> "ok"
      [] proc[o] = "foreign" -> "EPERM"
      [] OTHER -> "ESRCH"

\* The process table after os.kill(pid, sig) of object o.
KillEffect(o, sig) ==
    IF KillOutcome(o) = "ok" /\ sig = "KILL" /\ proc[o] = "running"
    THEN [proc EXCEPT ![o] = "zombie"]
    ELSE proc

\* The descriptor table after os.close(fd).
OsClose(fd) == IF fdTable[fd] # 0 THEN [fdTable EXCEPT ![fd] = 0] ELSE fdTable

\* pty.fork: the master side gets the lowest free descriptor number.
LowestFreeFd ==
    CHOOSE f \in Fds : fdTable[f] = 0 /\ \A g \in Fds : g < f => fdTable[g] # 0

HandleOpen(o) == \E f \in Fds : fdTable[f] = o
Exited(o) == proc[o] \in {"zombie", "reaped"}
Running(o) == proc[o] \in {"running", "foreign"}

\* ---------------------------------------------------------- TUISession

is_alive(o) == KillOutcome(o) = "ok"

\* The manager exists and its event loop is not inside close or cleanup_dead.
Idle == session_manager = "made" /\ closing.pc = "none" /\ ~sweep.active

Registered(o) == o # 0 /\ sid[o] # 0 /\ sessions[sid[o]] = o

\* The registry, the sessions and the OS before the first call.
InitRegistry ==
    /\ sessions = [i \in Ids |-> 0]
    /\ nobj = 0
    /\ sid = [o \in Objs |-> 0]
    /\ sfd = [o \in Objs |-> 0]
    /\ fdTable = [f \in Fds |-> 0]
    /\ proc = [o \in Objs |-> "none"]
    /\ signaled = {}
    /\ pending = [o \in Objs |-> "none"]
    /\ closing = NoClose
    /\ sweep = NoSweep
    /\ closed = {}
    /\ popped = {}
    /\ repop = FALSE
    /\ ret = NoRet
    /\ capcount = [o \in Objs |-> 0]
    /\ capret = [o \in Objs |-> 0]
    /\ listed = NoList
    /\ session_manager = "None"

Init == InitRegistry /\ keys = <<>>

\* --------------------------------------------------------------- drain

\* What the OS delivers at one iteration of the drain loop: no data within
\* the timeout, a read of zero bytes, a read error (EIO), or a chunk.
PollKinds == {"notready", "eof", "err", "data"}
Outcomes ==
    {[k |-> kk, c |-> 1] : kk \in PollKinds \ {"data"}}
        \cup {[k |-> "data", c |-> cc] : cc \in Chunks}
Scripts == [1..MaxReads -> Outcomes]

\* A script the OS can produce for the pty open at descriptor fd: end of
\* file and read errors need every process on the slave side to be gone.
\* (The loop stops at the first entry that is no chunk; the entries after
\* it are never looked at and are fixed.)
Feasible(fd, script) ==
    \A n \in 1..MaxReads :
        /\ script[n].k \in {"eof", "err"} => fdTable[fd] # 0 /\ Exited(fdTable[fd])
        /\ script[n].k # "data" =>
               \A m \in (n + 1)..MaxReads : script[m].k = "notready"

NoDrain == [polls |-> 0, nreads |-> 0, out |-> <<>>, fed |-> <<>>,
            raised |-> FALSE, src |-> 0, last |-> "none"]

\* Faulty variant of ReadError: the OSError of os.read leaves the drain.
ReadErrorRaised(polled) ==
    [polled EXCEPT !.nreads = @ + 1, !.last = "err", !.raised = TRUE]

\* os.read raises OSError (EIO once the child is gone): except OSError: break
ReadError(polled) == [polled EXCEPT !.nreads = @ + 1, !.last = "err"]

RECURSIVE ReadLoop(_, _, _, _, _)
ReadLoop(fd, max_reads, script, reads, acc) ==
    IF reads >= max_reads THEN acc
    ELSE LET e == script[reads + 1]
             polled == [acc EXCEPT !.polls = @ + 1, !.src = fdTable[fd]]
         IN  IF fdTable[fd] = 0
             THEN [polled EXCEPT !.raised = TRUE,       \* select raises EBADF
                                 !.last = "EBADF"]
             ELSE IF e.k = "notready"                    \* if not ready: break
                  THEN [polled EXCEPT !.last = "notready"]
             ELSE IF e.k = "eof"                         \* if not chunk: break
                  THEN [polled EXCEPT !.nreads = @ + 1, !.last = "eof"]
             ELSE IF e.k = "err"
                  THEN ReadError(polled)
             ELSE ReadLoop(fd, max_reads, script, reads + 1,
                           [polled EXCEPT !.nreads = @ + 1, !.last = "data",
                                          !.out = Append(@, e.c),
                                          !.fed = Append(@, e.c)])

\* TUISession._read_output of object o under the given OS script.
read_output(o, max_reads, script) ==
    ReadLoop(sfd[o], max_reads, script, 0, NoDrain)

\* ---------------------------------------- TUITerminalTool.execute boundary

\* The exceptions the `except Exception` clause of execute catches: the
\* OS errors and every other Exception an operation raises.
ExceptException(e) ==
    e \in {"EBADF", "EIO", "ENOSPC", "UnicodeEncodeError"}

\* The input dict of execute, as far as the operations read it.
Operations == {"", "spawn", "send_keys", "capture", "close", "list", "bogus"}
Inputs == [operation : Operations, command : {"", "cmd"}, session_id : 0..NumIds]
In(operation, i) == [operation |-> operation, command |-> "", session_id |-> i]

\* execute ends with the exception exc, which no clause of it caught.
Raises(operation, exc) ==
    [success |-> FALSE, error |-> "", operation |-> operation,
     cause |-> exc, escaped |-> TRUE]

\* What execute hands back for an operation that returned (exc = "none")
\* or raised exc: ToolResult(success=True, data=...), or
\* ToolResult(success=False, error=f"Operation {operation} failed: {e}"),
\* or the exception itself when the clause does not catch it.
Execute(operation, exc) ==
    IF exc = "none"
    THEN [success |-> TRUE, error |-> "", operation |-> operation,
          cause |-> "none", escaped |-> FALSE]
    ELSE IF ExceptException(exc)
    THEN [success |-> FALSE, error |-> "Operation failed", operation |-> operation,
          cause |-> exc, escaped |-> FALSE]
    ELSE Raises(operation, exc)

\* ToolResult(success=False, error=msg) of an early return.
Failed(operation, msg) ==
    [success |-> FALSE, error |-> msg, operation |-> operation,
     cause |-> "none", escaped |-> FALSE]

\* ------------------------------------------------------ SessionManager

\* str(uuid.uuid4())[:8]: any value, with no look at the registry.
uuid4 == Ids

get(i) == sessions[i]

\* SessionManager.spawn up to its await asyncio.sleep(0.5).
Spawn(i) ==
    /\ Idle
    /\ nobj < MaxObjs
    /\ i \in uuid4
    /\ LET o == nobj + 1
           fd == LowestFreeFd
       IN  /\ nobj' = o
           /\ sid' = [sid EXCEPT ![o] = i]
           /\ sfd' = [sfd EXCEPT ![o] = fd]
           /\ fdTable' = [fdTable EXCEPT ![fd] = o]
           /\ proc' = [proc EXCEPT ![o] = "running"]
           /\ sessions' = [sessions EXCEPT ![i] = o]
           /\ pending' = [pending EXCEPT ![o] = "settle"]
    /\ ret' = NoRet
    /\ UNCHANGED <<signaled, closing, sweep, closed, popped, repop>>
    /\ UNCHANGED callerVars

\* SessionManager.spawn after the settle delay: the initial drain, return.
SpawnResume(o, script) ==
    /\ Idle
    /\ pending[o] = "settle"
    /\ Feasible(sfd[o], script)
    /\ LET d == read_output(o, MaxReads, script)
       IN  ret' = [op |-> "spawn", obj |-> o, id |-> sid[o], raised |-> d.raised,
                   registered |-> Registered(o), open |-> fdTable[sfd[o]] = o,
                   drain |-> d, exited |-> Exited(o),
                   status |-> IF is_alive(o) THEN "running" ELSE "exited",
                   exc |-> IF d.raised THEN "EBADF" ELSE "none",
                   result |-> Execute("spawn", IF d.raised THEN "EBADF" ELSE "none")]
    /\ pending' = [pending EXCEPT ![o] = "none"]
    /\ UNCHANGED <<sessions, nobj, sid, sfd, osVars, closing, sweep,
                   closed, popped, repop>>
    /\ UNCHANGED callerVars

\* TUISession.is_alive called by a holder of the session.
IsAlive(o) ==
    /\ Idle
    /\ o <= nobj
    /\ ret' = [op |-> "is_alive", obj |-> o, val |-> is_alive(o),
               exited |-> Exited(o), probe |-> KillOutcome(o)]
    /\ UNCHANGED <<sessions, nobj, sid, sfd, osVars, pending, closing, sweep,
                   closed, popped, repop>>
    /\ UNCHANGED callerVars

\* TUITerminalTool._close: the result for the value of manager.close().
CloseResult(success, exc) ==
    IF exc # "none" THEN Execute("close", exc)
    ELSE IF success THEN Execute("close", "none")
    ELSE Failed("close", "Session not found")

\* Faulty variants of Pop: the entry is looked up but left in the map
\* (get in place of pop); the whole map is cleared.
PopKeep(i) == sessions
PopClear(i) == [j \in Ids |-> 0]

\* The registry after self._sessions.pop(session_id, None).
Pop(i) == [sessions EXCEPT ![i] = 0]

PopCount(o) ==
    /\ popped' = popped \cup {o}
    /\ repop' = (repop \/ o \in popped)

StartClose(o, via, i) ==
    /\ closing' = [obj |-> o, pc |-> "closefd", log |-> <<>>, via |-> via, id |-> i,
                   first |-> o \notin closed]
    /\ closed' = closed \cup {o}

\* SessionManager.close(session_id) up to the call of session.close().
ManagerClose(i) ==
    /\ Idle
    /\ sessions' = Pop(i)
    /\ IF sessions[i] # 0
       THEN /\ StartClose(sessions[i], "destroy", i)
            /\ PopCount(sessions[i])
            /\ ret' = NoRet
       ELSE /\ ret' = [op |-> "close", id |-> i, val |-> FALSE, obj |-> 0,
                            via |-> "destroy", raised |-> FALSE,
                            exc |-> "none", inp |-> In("close", i),
                            result |-> CloseResult(FALSE, "none")]
            /\ UNCHANGED <<closing, closed, popped, repop>>
    /\ UNCHANGED <<nobj, sid, sfd, osVars, pending, sweep>>
    /\ UNCHANGED callerVars

\* TUISession.close() called by a holder of the session object.
SessionClose(o) ==
    /\ Idle
    /\ o <= nobj
    /\ StartClose(o, "direct", 0)
    /\ ret' = NoRet
    /\ UNCHANGED <<sessions, nobj, sid, sfd, osVars, pending, sweep, popped, repop>>
    /\ UNCHANGED callerVars

\* ------------------------------------------------- TUISession.close()

\* Faulty variant of ExceptOSError: `except ProcessLookupError` in its place.
ExceptLookupError(e) == e = "ESRCH"

\* The errors an `except OSError` clause catches.
ExceptOSError(e) == e \in {"EBADF", "EPERM", "ESRCH", "EIO"}

Log(ev) == Append(closing.log, ev)
PollsDone == Cardinality({n \in DOMAIN closing.log : closing.log[n] = "pollok"})

\* try: os.close(self.fd) / except OSError: pass
CloseFd ==
    /\ closing.pc = "closefd"
    /\ LET fd == sfd[closing.obj]
           e == IF fdTable[fd] = 0 THEN "EBADF" ELSE "ok"
       IN  /\ fdTable' = OsClose(fd)
           /\ closing' = [closing EXCEPT
                  !.log = Log(IF e = "ok" THEN "closefd" ELSE "closefd_EBADF"),
                  !.pc = IF e = "ok" \/ ExceptOSError(e) THEN "probe" ELSE "raised"]
    /\ UNCHANGED <<sessions, nobj, sid, sfd, proc, signaled, pending, sweep,
                   closed, popped, repop, ret>>
    /\ UNCHANGED callerVars

\* if self.is_alive():
CloseProbe ==
    /\ closing.pc = "probe"
    /\ closing' = [closing EXCEPT
           !.log = Log(IF is_alive(closing.obj) THEN "alive" ELSE "dead"),
           !.pc = IF is_alive(closing.obj) THEN "term" ELSE "ret"]
    /\ UNCHANGED <<sessions, nobj, sid, sfd, osVars, pending, sweep,
                   closed, popped, repop, ret>>
    /\ UNCHANGED callerVars

\* The step of close() after a signal call with outcome e: on to `next`
\* when delivered, out through the outer `except OSError: pass` otherwise.
AfterSignal(e, next) ==
    IF e = "ok" THEN next ELSE IF ExceptOSError(e) THEN "ret" ELSE "raised"

\* os.kill(self.pid, signal.SIGTERM)
CloseTerm ==
    /\ closing.pc = "term"
    /\ LET o == closing.obj
           e == KillOutcome(o)
       IN  /\ proc' = KillEffect(o, "TERM")
           /\ signaled' = IF e = "ok" THEN signaled \cup {o} ELSE signaled
           /\ closing' = [closing EXCEPT
                  !.log = Log(IF e = "ok" THEN "TERM" ELSE "TERM_fail"),
                  !.pc = AfterSignal(e, "poll")]
    /\ UNCHANGED <<sessions, nobj, sid, sfd, fdTable, pending, sweep,
                   closed, popped, repop, ret>>
    /\ UNCHANGED callerVars

\* Faulty variant of AfterPoll: the loop gives up one poll early.
AfterPollEarly(done) == IF done >= ClosePolls - 1 THEN "kill" ELSE "poll"

\* The step after a successful poll and its sleep: the loop goes on while
\* fewer than range(10) polls are done, then its else clause runs.
AfterPoll(done) == IF done >= ClosePolls THEN "kill" ELSE "poll"

\* One iteration of the poll loop: os.kill(self.pid, 0); time.sleep(0.1),
\* `except OSError: break` when the probe fails.
ClosePoll ==
    /\ closing.pc = "poll"
    /\ LET e == KillOutcome(closing.obj)
       IN  closing' = [closing EXCEPT
               !.log = Log(IF e = "ok" THEN "pollok" ELSE "pollgone"),
               !.pc = IF e = "ok" THEN AfterPoll(PollsDone + 1)
                      ELSE IF ExceptOSError(e) THEN "ret" ELSE "raised"]
    /\ UNCHANGED <<sessions, nobj, sid, sfd, osVars, pending, sweep,
                   closed, popped, repop, ret>>
    /\ UNCHANGED callerVars

\* else: os.kill(self.pid, signal.SIGKILL)
CloseKill ==
    /\ closing.pc = "kill"
    /\ LET o == closing.obj
           e == KillOutcome(o)
       IN  /\ proc' = KillEffect(o, "KILL")
           /\ signaled' = IF e = "ok" THEN signaled \cup {o} ELSE signaled
           /\ closing' = [closing EXCEPT
                  !.log = Log(IF e = "ok" THEN "KILL" ELSE "KILL_fail"),
                  !.pc = AfterSignal(e, "ret")]
    /\ UNCHANGED <<sessions, nobj, sid, sfd, fdTable, pending, sweep,
                   closed, popped, repop, ret>>
    /\ UNCHANGED callerVars

\* close() returns (or raises) to its caller: SessionManager.close returns
\* True, cleanup_dead goes on with its loop, a direct caller gets None
\* (val FALSE stands for it).
CloseRet ==
    /\ closing.pc \in {"ret", "raised"}
    /\ closing' = NoClose
    /\ LET r == [op |-> "close", id |-> closing.id, val |-> closing.via # "direct",
                 obj |-> closing.obj, via |-> closing.via,
                 raised |-> closing.pc = "raised",
                 exc |-> IF closing.pc = "raised" THEN "EBADF" ELSE "none",
                 result |-> CloseResult(closing.via # "direct",
                                IF closing.pc = "raised" THEN "EBADF" ELSE "none")]
       IN  IF closing.via = "sweep" /\ closing.pc = "ret"
           THEN IF sweep.todo = {}
                THEN /\ ret' = [op |-> "sweep", val |-> sweep.n,
                                regAt |-> sweep.regAt, exitedAt |-> sweep.exitedAt,
                                openAt |-> sweep.openAt, sigAt |-> sweep.sigAt]
                     /\ sweep' = NoSweep
                ELSE /\ ret' = r
                     /\ sweep' = sweep
           ELSE /\ ret' = r
                /\ sweep' = NoSweep
    /\ UNCHANGED <<sessions, nobj, sid, sfd, osVars, pending, closed, popped, repop>>
    /\ UNCHANGED callerVars

\* ----------------------------------------- SessionManager.cleanup_dead

Tracked == {sessions[i] : i \in {j \in Ids : sessions[j] # 0}}

\* dead = [sid for sid, s in self._sessions.items() if not s.is_alive()]
DeadIds == {i \in Ids : sessions[i] # 0 /\ ~is_alive(sessions[i])}

CleanupDead ==
    /\ Idle
    /\ LET snap == [active |-> DeadIds # {}, todo |-> DeadIds,
                    n |-> Cardinality(DeadIds), regAt |-> Tracked,
                    exitedAt |-> {o \in Tracked : Exited(o)},
                    openAt |-> {o \in Tracked : HandleOpen(o)},
                    sigAt |-> signaled]
       IN  IF DeadIds = {}
           THEN /\ ret' = [op |-> "sweep", val |-> 0, regAt |-> snap.regAt,
                           exitedAt |-> snap.exitedAt, openAt |-> snap.openAt,
                           sigAt |-> snap.sigAt]
                /\ sweep' = sweep
           ELSE /\ sweep' = snap
                /\ ret' = NoRet
    /\ UNCHANGED <<sessions, nobj, sid, sfd, osVars, pending, closing,
                   closed, popped, repop>>
    /\ UNCHANGED callerVars

\* for sid in dead: await self.close(sid)   (the order of dead is the
\* dict's; every order is allowed here)
SweepNext(i) ==
    /\ sweep.active
    /\ closing.pc = "none"
    /\ i \in sweep.todo
    /\ sweep' = [sweep EXCEPT !.todo = @ \ {i}]
    /\ sessions' = Pop(i)
    /\ StartClose(sessions[i], "sweep", i)
    /\ PopCount(sessions[i])
    /\ ret' = NoRet
    /\ UNCHANGED <<nobj, sid, sfd, osVars, pending>>
    /\ UNCHANGED callerVars

\* ------------------------------------------- TUITerminalTool operations

\* The first execute that names an operation: get_session_manager() makes
\* the SessionManager, whose __init__ creates the base directory (mkdir is
\* the outcome of that).  The call stands before the try of execute, and
\* after it execute goes on with its operation.
GetSessionManager(inp, mkdir) ==
    /\ session_manager = "None"
    /\ inp.operation # ""
    /\ mkdir \in {"ok", "EACCES"}
    /\ session_manager' = IF mkdir = "ok" THEN "made" ELSE "None"
    /\ ret' = IF mkdir = "ok" THEN NoRet
              ELSE [op |-> "execute", inp |-> inp, exc |-> mkdir,
                    result |-> Raises(inp.operation, mkdir)]
    /\ UNCHANGED <<sessions, nobj, sid, sfd, osVars, pending, closing, sweep,
                   closed, popped, repop, capcount, capret, listed, keys>>

\* The early returns of execute, _spawn, _send_keys, _capture and _close:
\* the error string of the failed result, "none" when the operation goes on.
Rejected(inp) ==
    IF inp.operation = "" THEN "Missing required parameter: operation"
    ELSE IF inp.operation = "spawn"
         THEN IF inp.command = "" THEN "Missing required parameter: command"
              ELSE "none"
    ELSE IF inp.operation \in {"send_keys", "capture", "close"}
         THEN IF inp.session_id = 0
              THEN "Missing required parameter: session_id"
              ELSE IF inp.operation # "close" /\ get(inp.session_id) = 0
                   THEN "Session not found"
                   ELSE "none"
    ELSE IF inp.operation = "list" THEN "none"
    ELSE "Unknown operation"

\* execute returns early with a failed result.  (close of an id that is
\* not in the registry is ManagerClose.)
ExecuteRejected(inp) ==
    /\ Idle
    /\ Rejected(inp) # "none"
    /\ ret' = [op |-> "execute", inp |-> inp, exc |-> "none",
               result |-> Failed(inp.operation, Rejected(inp))]
    /\ UNCHANGED <<sessions, nobj, sid, sfd, osVars, pending, closing, sweep,
                   closed, popped, repop, callerVars>>

\* _send_keys up to the await asyncio.sleep of TUISession.send: lookup,
\* parse_keys, os.write(self.fd, data).
SendKeys(i) ==
    /\ Idle
    /\ Rejected(In("send_keys", i)) = "none"
    /\ LET o == get(i)
           e == IF fdTable[sfd[o]] = 0 THEN "EBADF" ELSE "none"
       IN  /\ pending[o] = "none"
           /\ IF e = "none"
              THEN /\ pending' = [pending EXCEPT ![o] = "sendwait"]
                   /\ ret' = NoRet
              ELSE /\ pending' = pending
                   /\ ret' = [op |-> "send_keys", inp |-> In("send_keys", i),
                              obj |-> o, exc |-> e,
                              result |-> Execute("send_keys", e)]
    /\ UNCHANGED <<sessions, nobj, sid, sfd, osVars, closing, sweep,
                   closed, popped, repop, callerVars>>

\* TUISession.send after its sleep: the drain; _send_keys returns.
SendResume(o, script) ==
    /\ Idle
    /\ pending[o] = "sendwait"
    /\ Feasible(sfd[o], script)
    /\ LET d == read_output(o, MaxReads, script)
           e == IF d.raised THEN "EBADF" ELSE "none"
       IN  ret' = [op |-> "send_keys",
                   obj |-> o, exc |-> e, result |-> Execute("send_keys", e),
                   drain |-> d]
    /\ pending' = [pending EXCEPT ![o] = "none"]
    /\ UNCHANGED <<sessions, nobj, sid, sfd, osVars, closing, sweep,
                   closed, popped, repop, callerVars>>

\* What _render_image can end with: the file is written, image.save fails
\* (OSError), or draw.text cannot encode a character for the fallback font.
RenderOutcomes == {"ok", "ENOSPC", "UnicodeEncodeError"}

\* _capture: lookup, then TUISession.capture (drain, text, count, render).
Capture(i, script, render) ==
    /\ Idle
    /\ Rejected(In("capture", i)) = "none"
    /\ render \in RenderOutcomes
    /\ LET o == get(i)
       IN       /\ Feasible(sfd[o], script)
                /\ capcount[o] < MaxCaptures
                /\ LET d == read_output(o, MaxReads, script)
                       e == IF d.raised
                            THEN (IF d.last = "err" THEN "EIO" ELSE "EBADF")
                            ELSE IF render # "ok" THEN render ELSE "none"
                       text == "display"
                       ansi == text
                   IN  /\ capcount' = IF d.raised THEN capcount
                                      ELSE [capcount EXCEPT ![o] = @ + 1]
                       /\ capret' = IF e = "none"
                                    THEN [capret EXCEPT ![o] = @ + 1]
                                    ELSE capret
                       /\ ret' = [op |-> "capture", inp |-> In("capture", i),
                                  obj |-> o, exc |-> e,
                                  result |-> Execute("capture", e),
                                  drain |-> d, text |-> text, ansi |-> ansi,
                                  number |-> capcount'[o], render |-> render,
                                  exited |-> Exited(o),
                                  open |-> fdTable[sfd[o]] = o]
    /\ UNCHANGED <<sessions, nobj, sid, sfd, osVars, pending, closing, sweep,
                   closed, popped, repop, listed, keys, session_manager>>

\* Faulty variant of list_sessions: the dict's live view, not a copy.
list_view == [held |-> TRUE, live |-> TRUE, items |-> {}]

\* SessionManager.list_sessions: list(self._sessions.values()).
list_sessions == [held |-> TRUE, live |-> FALSE, items |-> Tracked]

\* What iterating the held list yields now.
Observed == IF listed.live THEN Tracked ELSE listed.items

\* _list: the caller gets the list and the status of each session in it.
ListSessions ==
    /\ Idle
    /\ listed' = list_sessions
    /\ ret' = [op |-> "list", exc |-> "none", result |-> Execute("list", "none"),
               count |-> Cardinality(Tracked),
               running |-> {o \in Tracked : is_alive(o)}]
    /\ UNCHANGED <<sessions, nobj, sid, sfd, osVars, pending, closing, sweep,
                   closed, popped, repop, capcount, capret, keys,
                   session_manager>>

\* ------------------------------------------------------- parse_keys

\* Strings are sequences of characters, bytes are numbers.
KeyChars == {"{", "}", "u", "P"}
KeyStrings == UNION {[1..n -> KeyChars] : n \in 0..MaxKeyLen}

\* str.encode("utf-8") of one character.
Utf8(c) ==
    CASE c = "{" -> 123
      [] c = "}" -> 125
      [] c = "u" -> 117
      [] c = "U" -> 85
      [] c = "p" -> 112
      [] c = "P" -> 80

encode(str) == [n \in 1..Len(str) |-> Utf8(str[n])]

\* Faulty variant of upper: the name is looked up as it was written.
upper_none(str) == str

\* str.upper()
upper(str) ==
    [n \in 1..Len(str) |-> CASE str[n] = "u" -> "U"
                             [] str[n] = "p" -> "P"
                             [] OTHER -> str[n]]

\* SPECIAL_KEYS, the entries whose names can be written with KeyChars.
SPECIAL_KEYS == [name \in {<<"U", "P">>} |-> <<27, 91, 65>>]

Least(S) == IF S = {} THEN 0 ELSE CHOOSE n \in S : \A m \in S : n <= m

\* Faulty variant of MatchEnd: the name runs to the last "}" of the string.
MatchEndGreedy(str, i) ==
    LET S == {m \in (i + 1)..Len(str) : str[m] = "}"}
        j == IF S = {} THEN 0 ELSE CHOOSE n \in S : \A m \in S : m <= n
    IN  IF str[i] = "{" /\ j >= i + 2 THEN j ELSE 0

\* SPECIAL_KEY_PATTERN tried at position i, \{([^}]+)\} : the index of the
\* closing brace of the match, 0 when there is no match at i.
MatchEnd(str, i) ==
    LET j == Least({m \in (i + 1)..Len(str) : str[m] = "}"})
    IN  IF str[i] = "{" /\ j >= i + 2 THEN j ELSE 0

\* The start of the next match finditer yields from position pos on.
NextMatch(str, pos) == Least({i \in pos..Len(str) : MatchEnd(str, i) # 0})

RECURSIVE ParseFrom(_, _, _)
ParseFrom(str, pos, result) ==
    LET i == NextMatch(str, pos)
    IN  IF i = 0
        THEN result \o encode(SubSeq(str, pos, Len(str)))
        ELSE LET j == MatchEnd(str, i)
                 group1 == SubSeq(str, i + 1, j - 1)
                 key_name == upper(group1)
                 piece == IF key_name \in DOMAIN SPECIAL_KEYS
                          THEN SPECIAL_KEYS[key_name]
                          ELSE encode(<<"{">> \o group1 \o <<"}">>)
             IN  ParseFrom(str, j + 1,
                           result \o encode(SubSeq(str, pos, i - 1)) \o piece)

parse_keys(input_string) == ParseFrom(input_string, 1, <<>>)

\* A caller hands the string to parse_keys.
ParseKeys ==
    /\ ret' = [op |-> "parse_keys", out |-> parse_keys(keys)]
    /\ UNCHANGED <<sessions, nobj, sid, sfd, osVars, pending, closing, sweep,
                   closed, popped, repop, callerVars>>

\* ------------------------------------------------------- environment

\* The child process exits (on its own, or in reaction to a signal or to
\* the hangup of its terminal); nobody has waited for it yet.  (A process
\* that has changed its user id is taken out of the table at once: to the
\* parent its probe fails before and after.)
ProcExit(o) ==
    /\ Running(o)
    /\ proc' = [proc EXCEPT ![o] = IF @ = "running" THEN "zombie" ELSE "reaped"]
    /\ ret' = NoRet
    /\ UNCHANGED <<sessions, nobj, sid, sfd, fdTable, signaled, pending,
                   closing, sweep, closed, popped, repop>>
    /\ UNCHANGED callerVars

\* The child process changes its user id (the command runs a set-uid
\* program): signals from the parent are refused from then on.
ProcSetuid(o) ==
    /\ proc[o] = "running"
    /\ proc' = [proc EXCEPT ![o] = "foreign"]
    /\ ret' = NoRet
    /\ UNCHANGED <<sessions, nobj, sid, sfd, fdTable, signaled, pending,
                   closing, sweep, closed, popped, repop>>
    /\ UNCHANGED callerVars

\* The host process reaps the exited child (a SIGCHLD disposition or a
\* wait of its own); session_manager.py itself never waits for a child.
HostReap(o) ==
    /\ proc[o] = "zombie"
    /\ proc' = [proc EXCEPT ![o] = "reaped"]
    /\ ret' = NoRet
    /\ UNCHANGED <<sessions, nobj, sid, sfd, fdTable, signaled, pending,
                   closing, sweep, closed, popped, repop>>
    /\ UNCHANGED callerVars


Next ==
    \/ \E inp \in Inputs, mkdir \in {"ok", "EACCES"} : GetSessionManager(inp, mkdir)
    \/ \E i \in Ids : Spawn(i)
    \/ \E o \in Objs, script \in Scripts : SpawnResume(o, script)
    \/ \E o \in Objs : IsAlive(o)
    \/ \E i \in Ids : ManagerClose(i)
    \/ \E o \in Objs : SessionClose(o)
    \/ CloseFd
    \/ CloseProbe
    \/ CloseTerm
    \/ ClosePoll
    \/ CloseKill
    \/ CloseRet
    \/ CleanupDead
    \/ \E i \in Ids : SweepNext(i)
    \/ \E o \in Objs : ProcExit(o)
    \/ \E o \in Objs : ProcSetuid(o)
    \/ \E o \in Objs : HostReap(o)

Spec == Init /\ [][Next]_vars

\* The operations of the tool that do not count captures (spawn, send_keys,
\* close and the rejected calls) with the child processes and the host.
OpsNext ==
    \/ \E inp \in Inputs, mkdir \in {"ok", "EACCES"} : GetSessionManager(inp, mkdir)
    \/ \E i \in Ids : Spawn(i)
    \/ \E o \in Objs, script \in Scripts : SpawnResume(o, script)
    \/ \E inp \in Inputs : ExecuteRejected(inp)
    \/ \E i \in Ids : SendKeys(i)
    \/ \E o \in Objs, script \in Scripts : SendResume(o, script)
    \/ \E i \in Ids : ManagerClose(i)
    \/ CloseFd
    \/ CloseProbe
    \/ CloseTerm
    \/ ClosePoll
    \/ CloseKill
    \/ CloseRet
    \/ \E o \in Objs : ProcExit(o)
    \/ \E o \in Objs : ProcSetuid(o)
    \/ \E o \in Objs : HostReap(o)

SpecOps == Init /\ [][OpsNext]_vars

\* spawn, capture and close on sessions whose processes may exit.
CaptureNext ==
    \/ \E inp \in Inputs, mkdir \in {"ok", "EACCES"} : GetSessionManager(inp, mkdir)
    \/ \E i \in Ids : Spawn(i)
    \/ \E o \in Objs, script \in Scripts : SpawnResume(o, script)
    \/ \E i \in Ids, script \in Scripts, render \in RenderOutcomes :
          Capture(i, script, render)
    \/ \E i \in Ids : ManagerClose(i)
    \/ CloseFd
    \/ CloseProbe
    \/ CloseTerm
    \/ ClosePoll
    \/ CloseKill
    \/ CloseRet
    \/ \E o \in Objs : ProcExit(o)

SpecCapture == Init /\ [][CaptureNext]_vars

\* parse_keys on every string of up to MaxKeyLen characters.
KeysInit == InitRegistry /\ keys \in KeyStrings

KeysNext == ParseKeys

SpecKeys == KeysInit /\ [][KeysNext]_vars

\* The registry operations with list_sessions.
ListNext ==
    \/ \E inp \in Inputs, mkdir \in {"ok", "EACCES"} : GetSessionManager(inp, mkdir)
    \/ \E i \in Ids : Spawn(i)
    \/ \E o \in Objs, script \in Scripts : SpawnResume(o, script)
    \/ ListSessions
    \/ \E i \in Ids : ManagerClose(i)
    \/ CloseFd
    \/ CloseProbe
    \/ CloseTerm
    \/ ClosePoll
    \/ CloseKill
    \/ CloseRet
    \/ CleanupDead
    \/ \E i \in Ids : SweepNext(i)
    \/ \E o \in Objs : ProcExit(o)
    \/ \E o \in Objs : ProcSetuid(o)
    \/ \E o \in Objs : HostReap(o)

SpecList == Init /\ [][ListNext]_vars

\* ================================================================ claims

Constructed == 1..nobj

\* A step in which SessionManager.close(i) returns to an outside caller.
DestroyReturns == ret'.op = "close" /\ ret'.via = "destroy"

\* C1 (as stated): destroy(id) of a present id returns true and every later
\* lookup(id) returns absent: the id of a session that a destroy has popped
\* and closed is never a key of the registry again.
C1_DestroyedStaysAbsent ==
    \A o \in popped : closing.obj # o => get(sid[o]) = 0

\* C1 (amended): destroy(id) returns true exactly when id was a key, and then
\* id is absent when it returns and stays absent until a later create() draws
\* the same id for a new session; destroy(id) of an absent id returns false
\* and changes neither the registry nor any session.
C1_Destroy ==
    [][ /\ DestroyReturns /\ ret'.val
            => /\ sessions'[ret'.id] = 0
               /\ ret'.obj \in popped
               /\ sessions'[sid'[ret'.obj]] # ret'.obj
        /\ DestroyReturns /\ ~ret'.val
            => /\ get(ret'.id) = 0
               /\ UNCHANGED <<sessions, nobj, sid, sfd, fdTable, proc, signaled,
                              pending, closing, sweep, closed, popped>>
        /\ \A i \in Ids :
              get(i) = 0 /\ get(i)' # 0 => nobj' = nobj + 1 /\ get(i)' = nobj'
        /\ \A i \in Ids :
              get(i) # 0 /\ Idle /\ closing'.via = "destroy" /\ closing'.id = i
                  => closing'.obj = get(i) /\ get(i)' = 0
      ]_vars

\* C1 witness: a destroy has just returned true for a session it removed.
C1_Witness ==
    /\ ret.op = "close" /\ ret.via = "destroy" /\ ret.val
    /\ ret.obj \in popped
    /\ get(ret.id) = 0

\* C2: no session that was once registered and is no longer in the map
\* (its removal having returned) still holds an open handle or a running
\* process that was never signaled.
C2_NoLeak ==
    \A o \in Constructed :
        ~Registered(o) /\ closing.obj # o
            => /\ ~HandleOpen(o)
               /\ o \in signaled \/ ~Running(o)

\* C3: the handle is released by the first close() only: a step of a
\* close() that is not the first one on its session releases no handle
\* and changes no state of any session.
C3_RepeatedCloseIsNoOp ==
    [][ closing.pc # "none" /\ ~closing.first /\ closing' # closing
            => UNCHANGED <<fdTable, proc, signaled, sessions, pending>>
      ]_vars

\* C4: within one close() the handle is closed before any signal; SIGTERM
\* is sent only right after the liveness probe reported the process alive;
\* SIGKILL is sent only after SIGTERM and after all ClosePolls polls found
\* the process; no signal after a probe that reported it gone, and no
\* SIGKILL after a poll that found it gone.
SignalEvents == {"TERM", "TERM_fail", "KILL", "KILL_fail"}
LogHas(ev) == \E n \in DOMAIN closing.log : closing.log[n] = ev
C4_CloseOrder ==
    LET lg == closing.log
    IN  /\ \A n \in DOMAIN lg :
            /\ lg[n] \in SignalEvents
                => /\ lg[1] \in {"closefd", "closefd_EBADF"}
                   /\ n > 1
                   /\ ~HandleOpen(closing.obj)
            /\ lg[n] \in {"TERM", "TERM_fail"} => lg[n - 1] = "alive"
            /\ lg[n] \in {"KILL", "KILL_fail"}
                => /\ n = ClosePolls + 4
                   /\ lg[3] = "TERM"
                   /\ \A m \in 4..(n - 1) : lg[m] = "pollok"
        /\ LogHas("dead") => \A n \in DOMAIN lg : lg[n] \notin SignalEvents
        /\ LogHas("pollgone") => ~LogHas("KILL") /\ ~LogHas("KILL_fail")
        /\ PollsDone <= ClosePolls

\* C4 witness: a close() that went all the way: handle closed, SIGTERM,
\* the full poll budget, SIGKILL.
C4_Witness ==
    /\ closing.pc = "ret"
    /\ LogHas("KILL")
    /\ PollsDone = ClosePolls

\* C5: close() never raises and returns after a bounded number of steps,
\* whatever the OS answers to its calls.
C5_CloseNeverRaises ==
    /\ closing.pc # "raised"
    /\ Len(closing.log) <= ClosePolls + 4
    /\ ret.op = "close" => ~ret.raised

\* C5 witness: a close() about to return after the handle was already
\* closed and the signal was refused or found no process.
C5_Witness ==
    /\ closing.pc = "ret"
    /\ LogHas("closefd_EBADF")
    /\ LogHas("TERM_fail")

\* C6: cleanup_dead() removes exactly the tracked sessions whose process
\* had exited when it was called, returns their number, and leaves every
\* session whose process was running registered, its handle open, unsignaled.
C6_SweepExact ==
    ret.op = "sweep" =>
        LET removed == {o \in ret.regAt : ~Registered(o)}
        IN  /\ removed = ret.exitedAt
            /\ ret.val = Cardinality(removed)
            /\ \A o \in ret.regAt \ ret.exitedAt :
                  /\ Registered(o)
                  /\ o \in ret.openAt => HandleOpen(o)
                  /\ o \notin ret.sigAt => o \notin signaled

\* C7: once the child process has exited, isAlive() returns false.
C7_ExitedIsNotAlive ==
    ret.op = "is_alive" /\ ret.exited => ~ret.val

\* C8: a drain always returns, after at most max_reads polls and reads,
\* and every chunk it read is in the returned bytes and fed to the
\* emulator in read order.
C8_DrainReturns ==
    ret.op = "spawn" =>
        /\ ~ret.raised
        /\ ret.drain.polls <= MaxReads
        /\ ret.drain.nreads <= MaxReads
        /\ ret.drain.fed = ret.drain.out

\* C9: create() never assigns an id that is a key of the registry: it
\* replaces no entry.
C9_FreshId ==
    [][ nobj' = nobj + 1 => sessions[sid'[nobj']] = 0 ]_vars

\* C10: of all the SessionManager.close calls on one session (a caller's
\* destroy or the one cleanup_dead makes) exactly one pops it, returns true
\* and invokes its close(); every other one finds the id absent and returns
\* false.
C10_FirstDestroyerWins ==
    /\ ~repop
    /\ \A o \in popped : o \in closed /\ ~Registered(o)
    /\ ret.op = "close" /\ ret.via = "destroy" /\ ~ret.val => get(ret.id) = 0
    /\ ret.op = "close" /\ ret.via # "direct" /\ ret.val => ret.obj \in popped

\* C10 witness: a destroy returns false for the id of a session that an
\* earlier call popped and closed.
C10_Witness ==
    /\ ret.op = "close" /\ ret.via = "destroy" /\ ~ret.val
    /\ \E o \in popped : sid[o] = ret.id /\ closing.obj # o

\* C16: when the command could not start (its shell has exited by the time
\* create() returns, the handle being open), create() does not raise and the
\* tool's status field reports the session as not running.
C16_FailedStartShowsNotRunning ==
    ret.op = "spawn" /\ ret.exited /\ ret.open
        => ~ret.raised /\ ret.registered /\ ret.status = "exited"

\* C20: isAlive() returns false exactly when the probe fails because the
\* process does not exist, and true for every other outcome of the probe.
C20_FalseIffNoSuchProcess ==
    ret.op = "is_alive" => (ret.val = FALSE <=> ret.probe = "ESRCH")

\* C14: execute never raises: whatever it was called with and in whatever
\* state, it hands back a result, an exception of its operation being turned
\* into a failed result with the operation name and the message.
C14_BoundaryNeverRaises ==
    "result" \in DOMAIN ret =>
        /\ ~ret.result.escaped
        /\ ret.exc # "none" =>
              /\ ~ret.result.success
              /\ ret.result.cause = ret.exc
              /\ ret.result.operation \in Operations

\* The caller input errors: no operation, an unknown one, spawn without a
\* command, no session_id, or a session_id that is not in the registry.
InputError(inp) ==
    \/ inp.operation \notin {"spawn", "send_keys", "capture", "close", "list"}
    \/ inp.operation = "spawn" /\ inp.command = ""
    \/ /\ inp.operation \in {"send_keys", "capture", "close"}
       /\ inp.session_id = 0 \/ sessions[inp.session_id] = 0

\* C15: a call with a caller input error yields a failed result that has a
\* message, and changes neither the registry nor any session: no process
\* is spawned, no handle closed, no signal sent, no capture counted.
C15_InputErrorChangesNothing ==
    [][ "inp" \in DOMAIN ret' /\ InputError(ret'.inp) =>
          /\ ~ret'.result.success
          /\ ~ret'.result.escaped
          /\ ret'.result.error # ""
          /\ UNCHANGED <<sessions, nobj, sid, sfd, osVars, pending, capcount>>
      ]_vars

\* An operation on session a is inside one of its waits: the settle delay
\* of spawn or the wait after a send (the event loop running nothing else),
\* or the shutdown loop of close, between two of its polls.
InWait(a) ==
    \/ pending[a] \in {"settle", "sendwait"} /\ closing.pc = "none" /\ ~sweep.active
    \/ closing.obj = a /\ closing.pc = "poll" /\ PollsDone >= 1

\* C11: while an operation on session A is in one of its waits, an operation
\* on another session B (here a send to a registered session with an open
\* handle) can be scheduled without waiting for A's wait to end.
C11_WaitsDoNotBlockOthers ==
    \A a, b \in Objs :
        a # b /\ InWait(a) /\ Registered(b) /\ HandleOpen(b) /\ pending[b] = "none"
            => ENABLED SendKeys(sid[b])

\* C12: the n-th capture of a session that returns carries the number n in
\* its artifact path (capture_0001.png for the first, and so on).
C12_NthCaptureIsNumberedN ==
    ret.op = "capture" /\ ret.exc = "none" => ret.number = capret[ret.obj]

\* C13: capture() on a session whose process has exited and whose handle is
\* open does not raise because of that: the drain absorbs the read error or
\* end of file, and when the renderer succeeds the call returns text, ansi
\* equal to text and a numbered image path.
C13_CaptureAfterExit ==
    ret.op = "capture" /\ ret.exited /\ ret.open =>
        /\ ~ret.drain.raised
        /\ ret.exc \in {"none", ret.render}
        /\ ret.render = "ok" =>
              /\ ret.result.success
              /\ ret.ansi = ret.text
              /\ ret.number >= 1

\* C13 witness: a capture returned although reading the terminal of the
\* exited process failed with a read error.
C13_Witness ==
    /\ ret.op = "capture" /\ ret.exited /\ ret.open
    /\ ret.drain.last = "err"
    /\ ret.result.success

\* C17: the collection list_sessions returned holds exactly the sessions
\* tracked at the call, and what iterating it yields does not change when
\* sessions are created, destroyed or swept afterwards.
C17_ListIsSnapshot ==
    [][ /\ ret'.op = "list" => Observed' = Tracked
        /\ listed.held /\ ret'.op # "list" => Observed' = Observed
      ]_vars

\* C17 witness: the caller holds a list of two sessions while the registry
\* has lost one of them and a sweep is removing more.
C17_Witness ==
    /\ listed.held
    /\ Cardinality(Observed) = 2
    /\ Cardinality(Tracked) < 2

\* The token pattern of the specification, stated position by position:
\* str[i..j] is a token when it starts with the leftmost "{" that no earlier
\* token has taken, runs to the first "}" after it (non-greedy, no nesting)
\* and has a name of at least one character.
IsToken(str, i, j) ==
    /\ 1 <= i /\ i + 2 <= j /\ j <= Len(str)
    /\ str[i] = "{" /\ str[j] = "}"
    /\ \A m \in (i + 1)..(j - 1) : str[m] # "}"
    /\ \A h \in 1..(i - 1) : str[h] = "{" => \E m \in (h + 1)..(i - 1) : str[m] = "}"

\* The boundary after the first k characters cuts a token of str.
TokenSplit(str, k) ==
    \E i \in 1..Len(str), j \in 1..Len(str) : IsToken(str, i, j) /\ i <= k /\ k < j

\* C18: encode(s1 + s2) = encode(s1) + encode(s2) for every way of cutting
\* a string into s1 and s2 that splits no token.
C18_ConcatenationCompatible ==
    ret.op = "parse_keys" =>
        \A k \in 0..Len(keys) :
            ~TokenSplit(keys, k) =>
                ret.out = parse_keys(SubSeq(keys, 1, k))
                            \o parse_keys(SubSeq(keys, k + 1, Len(keys)))

\* C18 witness: a string was encoded that has a token on each side of a
\* boundary that splits none, and a stray brace as well.
C18_Witness ==
    /\ ret.op = "parse_keys"
    /\ \E k \in 1..(Len(keys) - 1) :
          /\ ~TokenSplit(keys, k)
          /\ \E i \in 1..k : IsToken(keys, i, k)
          /\ \E i \in (k + 1)..Len(keys), j \in (k + 1)..Len(keys) :
                IsToken(keys, i, j) /\ j < Len(keys)

\* What the specification asks of the character at position p: the bytes of
\* the key for the first character of a token whose upper-cased name is in
\* the table, nothing for the other characters of such a token, and the
\* character itself everywhere else (unknown tokens and plain text).
Spellings(c) ==
    CASE c = "U" -> {"U", "u"}
      [] c = "P" -> {"P", "p"}
      [] OTHER -> {c}

Names(name, key) ==
    Len(name) = Len(key) /\ \A n \in 1..Len(key) : name[n] \in Spellings(key[n])

KeyOf(str, i, j) ==
    {key \in DOMAIN SPECIAL_KEYS : Names(SubSeq(str, i + 1, j - 1), key)}

KnownToken(str, i, j) == IsToken(str, i, j) /\ KeyOf(str, i, j) # {}

BytesAt(str, p) ==
    IF \E j \in 1..Len(str) : KnownToken(str, p, j)
    THEN LET j == CHOOSE j \in 1..Len(str) : KnownToken(str, p, j)
         IN  SPECIAL_KEYS[CHOOSE key \in KeyOf(str, p, j) : TRUE]
    ELSE IF \E i \in 1..Len(str), j \in 1..Len(str) :
               KnownToken(str, i, j) /\ i < p /\ p <= j
         THEN <<>>
         ELSE <<Utf8(str[p])>>

RECURSIVE BytesUpTo(_, _)
BytesUpTo(str, p) == IF p = 0 THEN <<>> ELSE BytesUpTo(str, p - 1) \o BytesAt(str, p)

\* C19: every token whose upper-cased name is in the key table becomes the
\* bytes of that key, every other token and all other text is emitted as
\* written; nothing is dropped and the empty string gives no bytes.
C19_TokensEncoded ==
    ret.op = "parse_keys" =>
        /\ ret.out = BytesUpTo(keys, Len(keys))
        /\ keys = <<>> => ret.out = <<>>

\* C19 witness: a string with a known token written in mixed case and an
\* unknown token with a lower-case letter was encoded.
C19_Witness ==
    /\ ret.op = "parse_keys"
    /\ \E i \in 1..Len(keys), j \in 1..Len(keys) :
          KnownToken(keys, i, j) /\ keys[i + 1] = "u"
    /\ \E i \in 1..Len(keys), j \in 1..Len(keys) :
          /\ IsToken(keys, i, j) /\ ~KnownToken(keys, i, j)
          /\ \E m \in (i + 1)..(j - 1) : keys[m] = "u"

\* C21: in every reachable state the captureCount of a session equals the
\* number of its captures that returned; a capture that fails (in the drain
\* or in the renderer) leaves it unchanged.
C21_CountIsSucceededCaptures ==
    \A o \in Objs : capcount[o] = capret[o]

\* C22: a session that create() returns is, at that moment, in the registry
\* under its id and has its handle open, whatever destroy and sweepDead
\* calls ran during the settle delay.
C22_ReturnedIsRegisteredOpen ==
    ret.op = "spawn" /\ ~ret.raised => ret.registered /\ ret.open

\* Session b is live and owns the pty open at its descriptor number.
OwnsHandle(b) == b # 0 /\ Registered(b) /\ HandleOpen(b)

\* C23: no operation on behalf of session A reads from, writes to or closes
\* the handle a different live session B owns: a drain that read bytes read
\* them from its own session's pty (so B's bytes are fed to B's emulator
\* only), the write of a send goes to its own session's pty, and a close()
\* closes no handle that another live session owns.
C23_HandleOwnershipExclusive ==
    [][ /\ "drain" \in DOMAIN ret' /\ ret'.drain.nreads > 0 /\ ret'.drain.src # ret'.obj
            => ~OwnsHandle(ret'.drain.src)
        /\ \A o \in Objs :
              pending[o] = "none" /\ pending'[o] = "sendwait" /\ fdTable[sfd[o]] # o
                  => ~OwnsHandle(fdTable[sfd[o]])
        /\ \A f \in Fds :
              fdTable[f] # 0 /\ fdTable'[f] = 0 /\ closing.obj # fdTable[f]
                  => ~OwnsHandle(fdTable[f])
      ]_vars

====
